---- MODULE Spec2Model ----
(***************************************************************************)
(* Model of the rmodbus frame processor (src/src/server.rs) driven by a    *)
(* transport loop (src/examples/example-server/src/rtu.rs).                *)
(*                                                                         *)
(* A frame is the fixed [u8; 256] buffer, modelled as a function on        *)
(* 0..255.  Replies are sequences of bytes.  The register context lives in *)
(* context.rs, which the server module only declares; its accessors are    *)
(* modelled from the specification text.                                   *)
(***************************************************************************)
EXTENDS Integers, Sequences, FiniteSets, TLC

\* ------------------------------------------------------------------------
\* Bounds of the model
\* ------------------------------------------------------------------------

\* Number of cells of each bank (fixed at context creation).
ContextSize == 10

\* ------------------------------------------------------------------------
\* Program constants
\* ------------------------------------------------------------------------

FrameLen == 256

MaxBitCount == 2000

MaxWordCount == 125

MaxWriteBytes == 242

\* ------------------------------------------------------------------------
\* Byte and word arithmetic
\* ------------------------------------------------------------------------

\* u16::from_be_bytes([hi, lo])
FromBE(hi, lo) == hi * 256 + lo

\* u16::from_le_bytes([lo, hi])
FromLE(lo, hi) == hi * 256 + lo

\* (v as u16).to_be_bytes()
ToBE(v) == << (v % 65536) \div 256, v % 256 >>

\* crc.to_le_bytes()
ToLE(v) == << v % 256, (v % 65536) \div 256 >>

\* Bitwise exclusive or of two naturals.
RECURSIVE Xor(_, _)
Xor(a, b) ==
  IF a = 0 THEN b
  ELSE IF b = 0 THEN a
  ELSE (((a % 2) + (b % 2)) % 2) + 2 * Xor(a \div 2, b \div 2)

\* Bit i of the natural v.
Bit(v, i) == (v \div (2 ^ i)) % 2

\* v ^ (1 << i)
FlipBit(v, i) == IF Bit(v, i) = 1 THEN v - 2 ^ i ELSE v + 2 ^ i

\* ------------------------------------------------------------------------
\* Checksum unit: calc_rtu_crc
\* ------------------------------------------------------------------------

\* v ^ 0xA001: the polynomial has the bits 0, 13 and 15 set.
XorPoly(v) == FlipBit(FlipBit(FlipBit(v, 0), 13), 15)

\* One pass of the inner loop: shift right, xor the polynomial if the low
\* bit was set.
CrcShift(crc) ==
  IF crc % 2 # 0 THEN XorPoly(crc \div 2) ELSE crc \div 2

\* The body of the outer loop for one byte: xor it in, then 8 shifts.
CrcByte(crc, b) ==
  CrcShift(CrcShift(CrcShift(CrcShift(
  CrcShift(CrcShift(CrcShift(CrcShift(Xor(crc, b)))))))))

\* The outer loop over the positions lo..hi-1 of the 0-indexed buffer buf,
\* entered with the value crc.  The loop runs the positions in ascending
\* order; the range is split in halves, and the left half is evaluated
\* (left >= 0 always holds) before the right one starts, only to keep the
\* evaluation shallow.
RECURSIVE CrcLoop(_, _, _, _)
CrcLoop(buf, crc, lo, hi) ==
  IF hi <= lo THEN crc
  ELSE IF hi = lo + 1 THEN CrcByte(crc, buf[lo])
  ELSE LET mid == (lo + hi) \div 2
           left == CrcLoop(buf, crc, lo, mid)
       IN  IF left >= 0 THEN CrcLoop(buf, left, mid, hi) ELSE left

calc_rtu_crc(buf, data_length) == CrcLoop(buf, 65535, 0, data_length)

\* A response vector seen as a 0-indexed slice.
AsSlice(resp) == [i \in 0 .. Len(resp) - 1 |-> resp[i + 1]]

\* ------------------------------------------------------------------------
\* Register context (context.rs): four banks, ContextSize cells each unless
\* said otherwise
\* ------------------------------------------------------------------------

Addrs == 0 .. ContextSize - 1

\* The number of cells of a bank, fixed when the context is created.
Size(bank) == Cardinality(DOMAIN bank)

Ok(v) == [ok |-> TRUE, val |-> v]

Err == [ok |-> FALSE, val |-> << >>]

\* One byte of the packed encoding: 8 booleans, low bit first, cells past
\* the requested range are padding and read as zero.
PackByte(bank, from, to) ==
  LET b(i) == IF from + i < to /\ bank[from + i] THEN 2 ^ i ELSE 0
  IN  b(0) + b(1) + b(2) + b(3) + b(4) + b(5) + b(6) + b(7)

\* get_bools_as_u8(reg, count, &bank): count booleans from reg, packed.
get_bools_as_u8(reg, count, bank) ==
  IF reg + count > Size(bank) THEN Err
  ELSE Ok([k \in 1 .. (count + 7) \div 8 |->
             PackByte(bank, reg + 8 * (k - 1), reg + count)])

\* get_regs_as_u8(reg, count, &bank): count words from reg, 2 big-endian
\* bytes each.
get_regs_as_u8(reg, count, bank) ==
  IF reg + count > Size(bank) THEN Err
  ELSE Ok([k \in 1 .. 2 * count |->
             IF k % 2 = 1 THEN bank[reg + (k - 1) \div 2] \div 256
                          ELSE bank[reg + (k - 1) \div 2] % 256])

\* set(reg, value, &mut bank): the result and the bank afterwards.
set(reg, value, bank) ==
  IF reg >= Size(bank) THEN [ok |-> FALSE, bank |-> bank]
  ELSE [ok |-> TRUE, bank |-> [bank EXCEPT ![reg] = value]]

\* set_bools_from_u8(reg, count, &data, &mut bank): unpack count booleans,
\* low bit of the first byte to the lowest address.  A payload that holds
\* fewer than count bits fails like an out-of-range write, atomically.
set_bools_from_u8(reg, count, data, bank) ==
  IF reg + count > Size(bank) \/ count > 8 * Len(data)
  THEN [ok |-> FALSE, bank |-> bank]
  ELSE [ok |-> TRUE,
        bank |-> [a \in DOMAIN bank |->
                    IF a >= reg /\ a < reg + count
                    THEN Bit(data[(a - reg) \div 8 + 1], (a - reg) % 8) = 1
                    ELSE bank[a]]]

\* set_regs_from_u8(reg, &data, &mut bank): Len(data)/2 big-endian words,
\* the first one to the lowest address.  A payload of odd length fails
\* like an out-of-range write, atomically.
set_regs_from_u8(reg, data, bank) ==
  IF reg + Len(data) \div 2 > Size(bank) \/ Len(data) % 2 # 0
  THEN [ok |-> FALSE, bank |-> bank]
  ELSE [ok |-> TRUE,
        bank |-> [a \in DOMAIN bank |->
                    IF a >= reg /\ a < reg + Len(data) \div 2
                    THEN FromBE(data[2 * (a - reg) + 1], data[2 * (a - reg) + 2])
                    ELSE bank[a]]]

\* ------------------------------------------------------------------------
\* Frame processor: the macros of process_frame
\* ------------------------------------------------------------------------

\* The outcomes of one call: no reply, reply bytes, or the panic of the
\* calling thread.  err is the code handed to response_error! on the way to
\* the reply, 0 when the macro was not used.
None == [kind |-> "None", bytes |-> << >>, err |-> 0]

Some(bytes) == [kind |-> "Some", bytes |-> bytes, err |-> 0]

Abort == [kind |-> "Abort", bytes |-> << >>, err |-> 0]

\* a + b on u8: with overflow checks the sum panics past 255 (-1 here),
\* without them it wraps.
AddU8(a, b, overflow_checks) ==
  IF a + b > 255 THEN (IF overflow_checks THEN -1 ELSE (a + b) % 256)
  ELSE a + b

\* check_frame_crc!(len): "pass", "fail" or "abort".  len is -1 when the
\* length expression itself panicked; frame[len + 1] is out of bounds for
\* len = 255.  Under TcpUdp the || short-circuits and nothing is evaluated.
check_frame_crc(frame, proto, len) ==
  IF proto = "TcpUdp" THEN "pass"
  ELSE IF len < 0 \/ len + 1 >= FrameLen THEN "abort"
  ELSE IF calc_rtu_crc(frame, len) = FromLE(frame[len], frame[len + 1])
       THEN "pass" ELSE "fail"

\* response_error!(err): the bytes appended, or << -1 >> when the u8
\* addition panics.
response_error(frame, proto, err, overflow_checks) ==
  IF proto = "TcpUdp"
  THEN LET f == AddU8(frame[8], 128, overflow_checks)
       IN  IF f < 0 THEN << -1 >> ELSE << 0, 3, frame[7], f, err >>
  ELSE LET f == AddU8(frame[1], 128, overflow_checks)
       IN  IF f < 0 THEN << -1 >> ELSE << frame[0], f, err >>

\* response_set_data_len!(len) with the length low byte first.
response_set_data_len_LittleEndian(proto, len) ==
  IF proto = "TcpUdp" THEN ToLE(len) ELSE << >>

\* response_set_data_len!(len)
response_set_data_len(proto, len) ==
  IF proto = "TcpUdp" THEN ToBE(len) ELSE << >>

\* finalize_response!() with the checksum appended high byte first.
finalize_response_BigEndian(proto, response) ==
  IF proto = "Rtu"
  THEN Some(response \o
            ToBE(calc_rtu_crc(AsSlice(response), Len(response) % 256)))
  ELSE Some(response)

\* finalize_response!()
finalize_response(proto, response) ==
  IF proto = "Rtu"
  THEN Some(response \o
            ToLE(calc_rtu_crc(AsSlice(response), Len(response) % 256)))
  ELSE Some(response)

\* response_error!(err); return finalize_response!();
ErrorReply(frame, proto, prefix, err, overflow_checks) ==
  LET e == response_error(frame, proto, err, overflow_checks)
  IN  IF e = << -1 >> THEN Abort
      ELSE [finalize_response(proto, prefix \o e) EXCEPT !.err = err]

\* ------------------------------------------------------------------------
\* Frame processor: process_frame
\* ------------------------------------------------------------------------

\* Offset of the unit id: after the 6-byte header under TcpUdp.
StartFrame(proto) == IF proto = "TcpUdp" THEN 6 ELSE 0

\* The header test of the TcpUdp variant (always passed under Rtu).
HeaderOk(frame, proto) ==
  proto = "TcpUdp" =>
    ~(FromBE(frame[2], frame[3]) # 0 \/ FromBE(frame[4], frame[5]) < 6)

Unit(frame, proto) == frame[StartFrame(proto)]

Broadcast(frame, proto) ==
  Unit(frame, proto) = 0 \/ Unit(frame, proto) = 255

\* The addressing test with the broadcast test negated the wrong way.
NotMine_Negated(unit_id, frame, proto) ==
  Broadcast(frame, proto) /\ Unit(frame, proto) # unit_id

\* "not my frame"
NotMine(unit_id, frame, proto) ==
  ~Broadcast(frame, proto) /\ Unit(frame, proto) # unit_id

\* The response vector before dispatch: the 4 echoed header bytes for a
\* non-broadcast TcpUdp request, empty otherwise.
EchoPrefix(frame, proto) ==
  IF ~Broadcast(frame, proto) /\ proto = "TcpUdp"
  THEN << frame[0], frame[1], frame[2], frame[3] >>
  ELSE << >>

Func(frame, proto) == frame[StartFrame(proto) + 1]

\* Bytes 2-3 after the unit id: the address.
Reg(frame, proto) ==
  FromBE(frame[StartFrame(proto) + 2], frame[StartFrame(proto) + 3])

\* Bytes 4-5 after the unit id: the count of a read or multiple write, the
\* value of a single write.
Count(frame, proto) ==
  FromBE(frame[StartFrame(proto) + 4], frame[StartFrame(proto) + 5])

\* frame[start_frame .. start_frame + n]
Slice(frame, from, n) == [k \in 1 .. n |-> frame[from + k - 1]]

\* The result of a call that never touched the context.
Ret(r, ctx) == [result |-> r, ctx |-> ctx, locks |-> 0]

\* The result of a call that locked the context once and left it as c.
RetLocked(r, c) == [result |-> r, ctx |-> c, locks |-> 1]

\* The count test of functions 1-4.
CountTooBig(func, count) ==
  ((func = 1 \/ func = 2) /\ count > MaxBitCount)
    \/ ((func = 3 \/ func = 4) /\ count > MaxWordCount)

\* The bank access with function 2 served from the coils.
ReadResult_CoilsTwice(func, reg, count, ctx) ==
  CASE func = 1 -> get_bools_as_u8(reg, count, ctx.coils)
    [] func = 2 -> get_bools_as_u8(reg, count, ctx.coils)
    [] func = 3 -> get_regs_as_u8(reg, count, ctx.holdings)
    [] func = 4 -> get_regs_as_u8(reg, count, ctx.inputs)

\* The bank access with function 3 served from the inputs.
ReadResult_HoldingsFromInputs(func, reg, count, ctx) ==
  CASE func = 1 -> get_bools_as_u8(reg, count, ctx.coils)
    [] func = 2 -> get_bools_as_u8(reg, count, ctx.discretes)
    [] func = 3 -> get_regs_as_u8(reg, count, ctx.inputs)
    [] func = 4 -> get_regs_as_u8(reg, count, ctx.inputs)

\* The bank access of a read, done under the context lock: the function
\* code selects the bank and the packing.
ReadResult(func, reg, count, ctx) ==
  CASE func = 1 -> get_bools_as_u8(reg, count, ctx.coils)
    [] func = 2 -> get_bools_as_u8(reg, count, ctx.discretes)
    [] func = 3 -> get_regs_as_u8(reg, count, ctx.holdings)
    [] func = 4 -> get_regs_as_u8(reg, count, ctx.inputs)

\* Functions 1-4: read coils / registers.
ReadRequest(frame, proto, ctx, overflow_checks) ==
  LET func == Func(frame, proto)
      count == Count(frame, proto)
      reg == Reg(frame, proto)
      response == EchoPrefix(frame, proto)
      result == ReadResult(func, reg, count, ctx)
  IN  IF Broadcast(frame, proto) \/ check_frame_crc(frame, proto, 6) # "pass"
      THEN Ret(None, ctx)
      ELSE IF CountTooBig(func, count)
      THEN Ret(ErrorReply(frame, proto, response, 3, overflow_checks), ctx)
      ELSE IF result.ok
      THEN RetLocked(
             finalize_response(proto,
               response
                 \o response_set_data_len(proto, Len(result.val) + 3)
                 \o Slice(frame, StartFrame(proto), 2)
                 \o << Len(result.val) % 256 >>
                 \o result.val),
             ctx)
      ELSE RetLocked(ErrorReply(frame, proto, response, 2, overflow_checks), ctx)

\* The tail of the write functions with the echo taken from the start of
\* the buffer instead of from the unit id.
WriteReply_FromZero(frame, proto, ok, overflow_checks) ==
  IF Broadcast(frame, proto) THEN None
  ELSE IF ~ok
  THEN ErrorReply(frame, proto, EchoPrefix(frame, proto), 2, overflow_checks)
  ELSE finalize_response(proto,
         EchoPrefix(frame, proto)
           \o response_set_data_len(proto, 6)
           \o Slice(frame, 0, 6))

\* The tail shared by the write functions: nothing for a broadcast, 0x02
\* for a failed write, the echo of the 6 request bytes otherwise.
WriteReply(frame, proto, ok, overflow_checks) ==
  IF Broadcast(frame, proto) THEN None
  ELSE IF ~ok
  THEN ErrorReply(frame, proto, EchoPrefix(frame, proto), 2, overflow_checks)
  ELSE finalize_response(proto,
         EchoPrefix(frame, proto)
           \o response_set_data_len(proto, 6)
           \o Slice(frame, StartFrame(proto), 6))

\* The value field of function 5: TRUE for 0xff00, FALSE for 0x0000.
CoilValueOk(v) == v = 65280 \/ v = 0

\* Function 5 with the write landing in the discretes.
WriteSingleCoil_ToDiscretes(frame, proto, ctx, overflow_checks) ==
  LET v == Count(frame, proto)
      result == set(Reg(frame, proto), v = 65280, ctx.discretes)
  IN  IF check_frame_crc(frame, proto, 6) # "pass" THEN Ret(None, ctx)
      ELSE IF ~CoilValueOk(v)
      THEN IF Broadcast(frame, proto) THEN Ret(None, ctx)
           ELSE Ret(ErrorReply(frame, proto, EchoPrefix(frame, proto), 3,
                               overflow_checks), ctx)
      ELSE RetLocked(WriteReply(frame, proto, result.ok, overflow_checks),
                     [ctx EXCEPT !.discretes = result.bank])

\* Function 5: write single coil.
WriteSingleCoil(frame, proto, ctx, overflow_checks) ==
  LET v == Count(frame, proto)
      result == set(Reg(frame, proto), v = 65280, ctx.coils)
  IN  IF check_frame_crc(frame, proto, 6) # "pass" THEN Ret(None, ctx)
      ELSE IF ~CoilValueOk(v)
      THEN IF Broadcast(frame, proto) THEN Ret(None, ctx)
           ELSE Ret(ErrorReply(frame, proto, EchoPrefix(frame, proto), 3,
                               overflow_checks), ctx)
      ELSE RetLocked(WriteReply(frame, proto, result.ok, overflow_checks),
                     [ctx EXCEPT !.coils = result.bank])

\* Function 6 with the broadcast dropped before the write.
WriteSingleRegister_DropBroadcast(frame, proto, ctx, overflow_checks) ==
  LET result == set(Reg(frame, proto), Count(frame, proto), ctx.holdings)
  IN  IF check_frame_crc(frame, proto, 6) # "pass" \/ Broadcast(frame, proto)
      THEN Ret(None, ctx)
      ELSE RetLocked(WriteReply(frame, proto, result.ok, overflow_checks),
                     [ctx EXCEPT !.holdings = result.bank])

\* Function 6: write single register.
WriteSingleRegister(frame, proto, ctx, overflow_checks) ==
  LET result == set(Reg(frame, proto), Count(frame, proto), ctx.holdings)
  IN  IF check_frame_crc(frame, proto, 6) # "pass" THEN Ret(None, ctx)
      ELSE RetLocked(WriteReply(frame, proto, result.ok, overflow_checks),
                     [ctx EXCEPT !.holdings = result.bank])

\* Functions 15 and 16: write multiple coils / registers.
WriteMultiple(frame, proto, ctx, overflow_checks) ==
  LET func == Func(frame, proto)
      bytes == frame[StartFrame(proto) + 6]
      crc == check_frame_crc(frame, proto, AddU8(7, bytes, overflow_checks))
      data == Slice(frame, StartFrame(proto) + 7, bytes)
      result == IF func = 15
                THEN set_bools_from_u8(Reg(frame, proto), Count(frame, proto),
                                       data, ctx.coils)
                ELSE set_regs_from_u8(Reg(frame, proto), data, ctx.holdings)
  IN  IF crc = "abort" THEN Ret(Abort, ctx)
      ELSE IF crc # "pass" THEN Ret(None, ctx)
      ELSE IF bytes > MaxWriteBytes
      THEN IF Broadcast(frame, proto) THEN Ret(None, ctx)
           ELSE Ret(ErrorReply(frame, proto, EchoPrefix(frame, proto), 3,
                               overflow_checks), ctx)
      ELSE IF StartFrame(proto) + 7 + bytes > FrameLen THEN Ret(Abort, ctx)
      ELSE RetLocked(WriteReply(frame, proto, result.ok, overflow_checks),
                     IF func = 15 THEN [ctx EXCEPT !.coils = result.bank]
                                  ELSE [ctx EXCEPT !.holdings = result.bank])

\* process_frame(unit_id, &frame, proto): the reply, the context afterwards
\* and the number of times the context lock was taken.
process_frame(unit_id, frame, proto, ctx, overflow_checks) ==
  LET func == Func(frame, proto)
  IN  IF ~HeaderOk(frame, proto) THEN Ret(None, ctx)
      ELSE IF NotMine(unit_id, frame, proto) THEN Ret(None, ctx)
      ELSE IF func >= 1 /\ func <= 4
      THEN ReadRequest(frame, proto, ctx, overflow_checks)
      ELSE IF func = 5
      THEN WriteSingleCoil(frame, proto, ctx, overflow_checks)
      ELSE IF func = 6
      THEN WriteSingleRegister(frame, proto, ctx, overflow_checks)
      ELSE IF func = 15 \/ func = 16
      THEN WriteMultiple(frame, proto, ctx, overflow_checks)
      ELSE Ret(ErrorReply(frame, proto, EchoPrefix(frame, proto), 1,
                          overflow_checks), ctx)

\* No register write on record.
NoWrite == [reg |-> -1, data |-> << >>]

\* The register write on record after a call that returned r on the
\* holdings h: the address and payload of a function-6 or function-16
\* request answered with its echo; nothing once a later call has changed a
\* cell of the recorded range.
LastWrite(frame, proto, r, h, written) ==
  LET func == Func(frame, proto)
      start == StartFrame(proto)
      n == Len(written.data) \div 2
  IN  IF r.result.kind = "Some" /\ r.result.err = 0 /\ r.locks = 1
           /\ (func = 6 \/ func = 16)
      THEN [reg |-> Reg(frame, proto),
            data |-> IF func = 6 THEN Slice(frame, start + 4, 2)
                     ELSE Slice(frame, start + 7, frame[start + 6])]
      ELSE IF \E a \in written.reg .. written.reg + n - 1 :
                r.ctx.holdings[a] # h[a]
      THEN NoWrite
      ELSE written

\* ------------------------------------------------------------------------
\* Inputs: the frames a transport can hand to process_frame
\* ------------------------------------------------------------------------

\* let mut buf: ModbusFrame = [0; 256]; then the received bytes on top.
MkFrame(bytes) ==
  [i \in 0 .. FrameLen - 1 |-> IF i < Len(bytes) THEN bytes[i + 1] ELSE 0]

ZeroFrame == MkFrame(<< >>)

\* The unit id the server is started with, the broadcast unit ids, and a
\* unit id of another server on the line.
LocalUnit == 1

BroadcastUnits == {0, 255}

OtherUnit == LocalUnit + 16

\* unit, function, two 16-bit fields: the 6 bytes every request starts with.
RequestHead(unit, func, reg, count) ==
  << unit, func >> \o ToBE(reg) \o ToBE(count)

\* (address, count) of the read requests.
ReadRanges ==
  { << 0, 0 >>, << 2, 3 >>, << 1, 9 >>, << 0, ContextSize >>,
    << 1, ContextSize >>, << ContextSize, 1 >>, << 0, 125 >>, << 0, 126 >>,
    << 3, 2000 >>, << 0, 2001 >>, << 32768, 1 >>, << 32768, 65535 >>,
    << 4, 1 >>, << 4, 2 >> }

ReadBodies ==
  { RequestHead(LocalUnit, f, r[1], r[2]) : f \in 1 .. 4, r \in ReadRanges }
    \cup { RequestHead(u, f, r[1], r[2]) :
             u \in BroadcastUnits \cup {OtherUnit}, f \in 1 .. 4,
             r \in { << 2, 3 >>, << 0, 2001 >> } }

\* (address, value) of the single writes.
CoilWrites ==
  { 3, ContextSize, 32768 } \X { 65280, 0, 255, 65281 }

RegisterWrites ==
  { 4, ContextSize, 32768 } \X { 4660, 65535 }

WriteSingleBodies ==
  { RequestHead(u, 5, w[1], w[2]) :
      u \in BroadcastUnits \cup {LocalUnit}, w \in CoilWrites }
    \cup { RequestHead(u, 6, w[1], w[2]) :
             u \in BroadcastUnits \cup {LocalUnit}, w \in RegisterWrites }
    \cup { RequestHead(OtherUnit, 5, 3, 0), RequestHead(OtherUnit, 5, 3, 65280),
           RequestHead(OtherUnit, 6, 4, 65535) }

\* << function, address, count, payload >> of the multiple writes.
MultiWrites ==
  { << 15, 1, 9, << 165, 1 >> >>,
    << 15, ContextSize - 2, 3, << 7 >> >>,
    << 16, 4, 2, << 18, 52, 171, 205 >> >>,
    << 16, ContextSize - 1, 2, << 0, 1, 0, 2 >> >>,
    << 16, 32768, 1, << 0, 9 >> >> }

WriteMultipleBodies ==
  { RequestHead(u, w[1], w[2], w[3]) \o << Len(w[4]) >> \o w[4] :
      u \in BroadcastUnits \cup {LocalUnit}, w \in MultiWrites }
    \cup { RequestHead(OtherUnit, 16, 4, 2) \o << 4, 18, 52, 171, 205 >> }

\* Multiple writes that declare a long payload (all zero bytes): the
\* longest one served, the shortest one refused, the longest one whose
\* checksum still lies inside an RTU buffer, and three beyond.
LongLengths == { 242, 243, 247, 248, 249, 255 }

LongBodies ==
  { RequestHead(u, f, 3, 1) \o << n >> \o [k \in 1 .. n |-> 0] :
      u \in {0, LocalUnit}, f \in {15, 16}, n \in LongLengths }

\* Function codes the server does not implement.
UnknownFuncs == { 0, 7, 17, 127, 128, 131, 255 }

UnknownBodies ==
  { RequestHead(u, f, r, 1) :
      u \in {0, LocalUnit}, f \in UnknownFuncs, r \in {3, 32768} }
    \cup { RequestHead(255, 7, 3, 1), RequestHead(OtherUnit, 7, 3, 1) }

Bodies ==
  ReadBodies \cup WriteSingleBodies \cup WriteMultipleBodies
    \cup LongBodies \cup UnknownBodies

\* An RTU frame: the body and two checksum bytes, right or wrong.
RtuFrame(body, good) ==
  LET crc == calc_rtu_crc(AsSlice(body), Len(body))
  IN  MkFrame(body \o ToLE(IF good THEN crc ELSE Xor(crc, 1)))

RtuFrames == { RtuFrame(b, g) : b \in Bodies, g \in BOOLEAN }

\* A TcpUdp frame: transaction id, protocol id, length, body.
TcpFrame(proto_id, length, body) ==
  MkFrame(<< 171, 205 >> \o ToBE(proto_id) \o ToBE(length) \o body)

\* Headers the processor refuses, and a few requests behind them.
BadHeaders == { << 1, 6 >>, << 256, 6 >>, << 0, 5 >>, << 0, 0 >> }

ProbeBodies ==
  UNION { { RequestHead(u, 3, 2, 3), RequestHead(u, 5, 3, 65280),
            RequestHead(u, 6, 4, 4660), RequestHead(u, 7, 3, 1) } :
          u \in {0, LocalUnit} }

TcpFrames ==
  { TcpFrame(0, Len(b), b) : b \in Bodies }
    \cup { TcpFrame(0, 256, b) : b \in ProbeBodies }
    \cup { TcpFrame(h[1], h[2], b) : h \in BadHeaders, b \in ProbeBodies }

Frames(proto) == IF proto = "Rtu" THEN RtuFrames ELSE TcpFrames

\* Contexts the server can start from: the fresh one, and one restored
\* from a snapshot.
FreshContext ==
  [coils |-> [a \in Addrs |-> FALSE], discretes |-> [a \in Addrs |-> FALSE],
   holdings |-> [a \in Addrs |-> 0], inputs |-> [a \in Addrs |-> 0]]

RestoredContext ==
  [coils |-> [a \in Addrs |-> a % 3 = 0],
   discretes |-> [a \in Addrs |-> a % 2 = 1],
   holdings |-> [a \in Addrs |-> 256 * (a + 1) + 11 + a],
   inputs |-> [a \in Addrs |-> 65535 - 257 * a]]

InitContexts == { FreshContext, RestoredContext }

\* ------------------------------------------------------------------------
\* Threads: connections calling process_frame, and the application loop
\* ------------------------------------------------------------------------

\* The threads that call process_frame, one per connection.
Workers == { "w1", "w2" }

\* The owner of the context lock when nobody holds it.
Free == "free"

\* The number of holding registers of the application context.
AppHoldings == 16

\* context::get(1500, &ctx.holdings): the command register of the
\* application, here the last register of the bank.
CommandReg == AppHoldings - 1

\* context::set_bulk(10, ..): where the application writes its results.
BulkReg == 10

\* context::set_f32(20, ..): where the application writes a measurement.
FloatReg == 20

\* The context of the application, the other banks as small as the
\* accesses of the application allow: coil 0, the two input words of the
\* measurement.
AppContext ==
  [coils |-> [a \in 0 .. 0 |-> FALSE],
   discretes |-> [a \in 0 .. 0 |-> FALSE],
   holdings |-> [a \in 0 .. AppHoldings - 1 |-> 0],
   inputs |-> [a \in 0 .. FloatReg + 1 |-> 0]]

\* The name of the bank a function code works on.
AccessBank(func) ==
  CASE func = 1 \/ func = 5 \/ func = 15 -> "coils"
    [] func = 2 -> "discretes"
    [] func = 3 \/ func = 6 \/ func = 16 -> "holdings"
    [] func = 4 -> "inputs"

\* The accessor call a request makes under the lock: whether it succeeds,
\* the number of cells it goes through, and the bank when it is done.
BankAccess(frame, proto, ctx) ==
  LET func == Func(frame, proto)
      reg == Reg(frame, proto)
      count == Count(frame, proto)
      bytes == frame[StartFrame(proto) + 6]
      data == Slice(frame, StartFrame(proto) + 7, bytes)
      done(r, n) == [ok |-> r.ok, n |-> n, bank |-> r.bank]
  IN  CASE func >= 1 /\ func <= 4 ->
             [ok |-> ReadResult(func, reg, count, ctx).ok, n |-> count,
              bank |-> ctx[AccessBank(func)]]
        [] func = 5 -> done(set(reg, count = 65280, ctx.coils), 1)
        [] func = 6 -> done(set(reg, count, ctx.holdings), 1)
        [] func = 15 ->
             done(set_bools_from_u8(reg, count, data, ctx.coils), count)
        [] func = 16 ->
             done(set_regs_from_u8(reg, data, ctx.holdings), bytes \div 2)

\* The context as a read has seen it: the cells it has fetched so far in
\* place of the ones of ctx.
View(frame, proto, ctx, buf) ==
  LET func == Func(frame, proto)
      reg == Reg(frame, proto)
  IN  IF func >= 1 /\ func <= 4 /\ Len(buf) > 0
      THEN [ctx EXCEPT ![AccessBank(func)] =
              [a \in DOMAIN @ |->
                 IF a >= reg /\ a < reg + Len(buf) THEN buf[a - reg + 1]
                 ELSE @[a]]]
      ELSE ctx

\* Whether a call gets as far as the lock: decided by the frame alone,
\* before any bank is looked at.
TakesLock(unit_id, frame, proto) ==
  process_frame(unit_id, frame, proto, FreshContext, FALSE).locks = 1

\* The requests the connections send: a read and a write of the two
\* result registers, the write as a broadcast, a command for the
\* application, a write and a read past the end of the bank, and a read
\* refused for its count.
ConcBodies ==
  { RequestHead(LocalUnit, 3, BulkReg, 2),
    RequestHead(LocalUnit, 16, BulkReg, 2) \o << 4, 18, 52, 171, 205 >>,
    RequestHead(0, 16, BulkReg, 2) \o << 4, 18, 52, 171, 205 >>,
    RequestHead(LocalUnit, 6, CommandReg, 1),
    RequestHead(LocalUnit, 16, CommandReg, 2) \o << 4, 0, 1, 0, 2 >>,
    RequestHead(LocalUnit, 3, 32768, 1),
    RequestHead(LocalUnit, 3, 0, MaxWordCount + 1) }

ConcFrames == { TcpFrame(0, Len(b), b) : b \in ConcBodies }

\* A thread between two calls.
IdleCall ==
  [pc |-> "idle", frame |-> ZeroFrame, i |-> 0, buf |-> << >>, acq |-> 0,
   result |-> None]

\* Nothing dumped.
NoSnapshot ==
  [coils |-> << >>, discretes |-> << >>, holdings |-> << >>,
   inputs |-> << >>]

\* The application loop before its first iteration.
AppStart ==
  [pc |-> "lock1", cmd |-> 0, i |-> 0, snapshot |-> NoSnapshot,
   pending |-> FALSE, fresh |-> FALSE]

\* ------------------------------------------------------------------------
\* The server loop: receive a frame, process it, reply or drop
\* ------------------------------------------------------------------------

VARIABLES
  ctx,              \* the register context
  unit_id,          \* the unit id the server was started with
  proto,            \* the protocol the server was started with
  pc,               \* "recv", "process", "reply" or "aborted"
  frame,            \* the frame buffer
  old,              \* the context when the frame was received
  result,           \* what process_frame returned
  locks,            \* how often the call locked the context
  written,          \* the last register write answered with its echo
  lock,             \* the thread that holds the context lock, or Free
  call,             \* per connection thread: its call of process_frame
  app               \* the application loop

vars ==
  << ctx, unit_id, proto, pc, frame, old, result, locks, written, lock, call,
     app >>

\* The threads of the example application, idle in the server loop above.
threads == << lock, call, app >>

NoThreads ==
  /\ lock = Free
  /\ call = [t \in Workers |-> IdleCall]
  /\ app = AppStart

Init ==
  /\ ctx \in InitContexts
  /\ unit_id = LocalUnit
  /\ proto \in { "Rtu", "TcpUdp" }
  /\ pc = "recv"
  /\ frame = ZeroFrame
  /\ old = ctx
  /\ result = None
  /\ locks = 0
  /\ written = NoWrite
  /\ NoThreads

\* The transport fills the buffer.
Receive ==
  /\ pc = "recv"
  /\ \E f \in Frames(proto) : frame' = f
  /\ pc' = "process"
  /\ old' = ctx
  /\ result' = None
  /\ locks' = 0
  /\ UNCHANGED << ctx, unit_id, proto, written, threads >>

\* One call of process_frame, start to end.  Whether an overflowing u8
\* addition panics or wraps depends on the build, so the call has the
\* outcomes of both.
ProcessFrame ==
  /\ pc = "process"
  /\ \E r \in { process_frame(unit_id, frame, proto, ctx, overflow_checks) :
                  overflow_checks \in BOOLEAN } :
       /\ ctx' = r.ctx
       /\ result' = r.result
       /\ locks' = r.locks
       /\ written' = LastWrite(frame, proto, r, ctx.holdings, written)
       /\ pc' = IF r.result.kind = "Abort" THEN "aborted" ELSE "reply"
  /\ UNCHANGED << unit_id, proto, frame, old, threads >>

\* Some(v): the reply is written to the wire and the loop starts over.
SendReply ==
  /\ pc = "reply"
  /\ result.kind = "Some"
  /\ pc' = "recv"
  /\ frame' = ZeroFrame
  /\ old' = ctx
  /\ result' = None
  /\ locks' = 0
  /\ UNCHANGED << ctx, unit_id, proto, written, threads >>

\* None: the frame is dropped and the loop starts over.
DropFrame ==
  /\ pc = "reply"
  /\ result.kind = "None"
  /\ pc' = "recv"
  /\ frame' = ZeroFrame
  /\ old' = ctx
  /\ result' = None
  /\ locks' = 0
  /\ UNCHANGED << ctx, unit_id, proto, written, threads >>

Next == Receive \/ ProcessFrame \/ SendReply \/ DropFrame

Spec == Init /\ [][Next]_vars

\* The call has returned (or panicked) and its outcome is in result.
Returned == pc = "reply" \/ pc = "aborted"

\* ------------------------------------------------------------------------
\* The request of the current call, as the bytes of the frame buffer say
\* ------------------------------------------------------------------------

ReqStart == IF proto = "TcpUdp" THEN 6 ELSE 0

ReqUnit == frame[ReqStart]

ReqFunc == frame[ReqStart + 1]

ReqAddr == 256 * frame[ReqStart + 2] + frame[ReqStart + 3]

\* The count of a read or multiple write, the value of a single write.
ReqField == 256 * frame[ReqStart + 4] + frame[ReqStart + 5]

ReqBroadcast == ReqUnit \in {0, 255}

\* Protocol id not 0 or length field below 6 (TcpUdp only).
ReqHeaderBad ==
  proto = "TcpUdp"
    /\ (frame[2] # 0 \/ frame[3] # 0 \/ 256 * frame[4] + frame[5] < 6)

\* Addressed to some other unit.
ReqForeign == ReqUnit \notin {0, 255, unit_id}

ReqAccepted == ~ReqHeaderBad /\ ~ReqForeign

ReqIsRead == ReqFunc \in 1 .. 4

ReqKnown == ReqFunc \in {1, 2, 3, 4, 5, 6, 15, 16}

\* Length of the request body the checksum covers.
ReqBodyLen ==
  IF ReqFunc \in {15, 16} THEN 7 + frame[ReqStart + 6] ELSE 6

\* The two bytes after the body are the little-endian checksum of the body
\* (nothing to check under TcpUdp).
ReqCrcOk ==
  proto = "TcpUdp"
    \/ (ReqBodyLen + 1 < FrameLen
          /\ calc_rtu_crc(frame, ReqBodyLen)
               = frame[ReqBodyLen] + 256 * frame[ReqBodyLen + 1])

\* function | 0x80
ReqFuncHigh == IF ReqFunc >= 128 THEN ReqFunc ELSE ReqFunc + 128

\* The exception reply the protocol asks for: unit, function | 0x80, code,
\* sealed or wrapped per transport.
ExpectedException(code) ==
  LET body == << ReqUnit, ReqFuncHigh, code >>
  IN  IF proto = "Rtu"
      THEN body \o ToLE(calc_rtu_crc(AsSlice(body), 3))
      ELSE << frame[0], frame[1], frame[2], frame[3], 0, 3 >> \o body

\* The call answered through response_error! with this code.
IsException(code) == result.kind = "Some" /\ result.err = code

\* ------------------------------------------------------------------------
\* Claims
\* ------------------------------------------------------------------------

\* C1: a frame that is not for this server (TcpUdp header with a non-zero
\* protocol id or a length field below 6; or, under either protocol, a unit
\* id that is not 0, not 255 and not the local one) gets no reply and
\* changes no bank, whatever its function code and payload.
C1_NotForThisServer ==
  (Returned /\ (ReqHeaderBad \/ ReqForeign)) =>
    (result.kind = "None" /\ ctx = old)

\* A well-formed register write to another unit, which would have changed
\* the addressed cell, was dropped.
C1_Witness ==
  /\ pc = "reply"
  /\ ReqForeign /\ ~ReqHeaderBad
  /\ ReqFunc = 6 /\ ReqAddr < ContextSize
  /\ old.holdings[ReqAddr] # ReqField
  /\ ReqCrcOk
  /\ result.kind = "None" /\ ctx = old

\* C2: under Rtu, a frame for this unit or a broadcast, of any function
\* code, whose two bytes after the request body are not the checksum of the
\* body gets no reply and changes no bank.
C2_ChecksumGate ==
  (Returned /\ proto = "Rtu" /\ ~ReqForeign /\ ~ReqCrcOk) =>
    (result.kind = "None" /\ ctx = old)

\* C3: every exception reply is unit, function | 0x80, code of the request
\* it answers: with the checksum under Rtu, after the 4 echoed bytes and a
\* length field of 3 under TcpUdp.
C3_ExceptionEcho ==
  (Returned /\ result.kind = "Some" /\ result.err # 0) =>
    result.bytes = ExpectedException(result.err)

\* C4: a non-broadcast read (functions 1-4) that passes the checksum gate
\* is answered with exception 0x03 exactly when its count exceeds the limit
\* (2000 for functions 1 and 2, 125 for functions 3 and 4), and then
\* without locking the context.
C4_CountLimit ==
  (Returned /\ ReqAccepted /\ ~ReqBroadcast /\ ReqIsRead /\ ReqCrcOk) =>
    LET limit == IF ReqFunc \in {1, 2} THEN 2000 ELSE 125
    IN  /\ IsException(3) <=> ReqField > limit
        /\ ReqField > limit => locks = 0

\* C5: a function code outside {1, 2, 3, 4, 5, 6, 15, 16}, addressed to
\* this unit or broadcast, under either protocol, is answered with
\* exception 0x01 and changes no bank.
C5_IllegalFunction ==
  (Returned /\ ReqAccepted /\ ~ReqKnown) => (IsException(1) /\ ctx = old)

\* C6: a broadcast request (unit id 0 or 255) is never answered, whatever
\* its function code.
C6_BroadcastNoReply ==
  (Returned /\ ReqBroadcast) => result.kind = "None"

\* The reply without its transport wrapping: the checksum under Rtu, the
\* 6 header bytes under TcpUdp.
ReplyBody ==
  IF proto = "Rtu"
  THEN SubSeq(result.bytes, 1, Len(result.bytes) - 2)
  ELSE SubSeq(result.bytes, 7, Len(result.bytes))

\* Under TcpUdp the reply starts with the first 4 request bytes and a
\* big-endian length field of n.
TcpWrapped(n) ==
  proto = "TcpUdp" =>
    /\ Len(result.bytes) >= 6
    /\ SubSeq(result.bytes, 1, 4) = << frame[0], frame[1], frame[2], frame[3] >>
    /\ 256 * result.bytes[5] + result.bytes[6] = n

\* The bank a read function addresses.
ReadBank(c) ==
  CASE ReqFunc = 1 -> c.coils
    [] ReqFunc = 2 -> c.discretes
    [] ReqFunc = 3 -> c.holdings
    [] ReqFunc = 4 -> c.inputs

\* A read for this unit, well-formed, within the count limit and inside
\* the bank.
ReadServed ==
  /\ Returned /\ ReqAccepted /\ ~ReqBroadcast /\ ReqIsRead
  /\ ReqField <= (IF ReqFunc \in {1, 2} THEN 2000 ELSE 125)
  /\ ReqAddr + ReqField <= ContextSize
  /\ ReqCrcOk

\* C7: a successful non-broadcast read is answered with unit, function, N
\* and N data bytes holding the addressed cells in ascending address order
\* (a word as 2 big-endian bytes, N = 2 * count; booleans 8 per byte, low
\* bit first, zero padded, N = ceil(count / 8)); under TcpUdp after the 4
\* echoed bytes and a length field of N + 3; no bank changes.
C7_ReadReply ==
  ReadServed =>
    LET bank == ReadBank(old)
        n == IF ReqFunc \in {1, 2} THEN (ReqField + 7) \div 8 ELSE 2 * ReqField
        body == ReplyBody
    IN  /\ result.kind = "Some" /\ result.err = 0
        /\ ctx = old
        /\ TcpWrapped(n + 3)
        /\ Len(body) = n + 3
        /\ body[1] = ReqUnit /\ body[2] = ReqFunc /\ body[3] = n
        /\ ReqFunc \in {3, 4} =>
             \A i \in 0 .. ReqField - 1 :
               /\ body[4 + 2 * i] = bank[ReqAddr + i] \div 256
               /\ body[5 + 2 * i] = bank[ReqAddr + i] % 256
        /\ ReqFunc \in {1, 2} =>
             \A i \in 0 .. 8 * n - 1 :
               Bit(body[4 + i \div 8], i % 8)
                 = IF i < ReqField /\ bank[ReqAddr + i] THEN 1 ELSE 0

\* Nine discrete inputs, some of them set, were read over TcpUdp: two data
\* bytes, the second one padded.
C7_Witness ==
  /\ pc = "reply" /\ ReadServed
  /\ proto = "TcpUdp" /\ ReqFunc = 2 /\ ReqField = 9
  /\ \E a \in ReqAddr .. ReqAddr + 8 : old.discretes[a]
  /\ \E a \in ReqAddr .. ReqAddr + 8 : ~old.discretes[a]
  /\ Len(result.bytes) = 11

\* What a write request does to the context c: the addressed cells take
\* the values of the request when the whole range is inside the bank,
\* nothing changes otherwise.
WriteEffect(c) ==
  LET bytes == frame[ReqStart + 6]
      payload(k) == frame[ReqStart + 7 + k]
  IN  CASE ReqFunc = 5 ->
             IF ReqAddr < ContextSize
             THEN [c EXCEPT !.coils[ReqAddr] = (ReqField = 65280)] ELSE c
        [] ReqFunc = 6 ->
             IF ReqAddr < ContextSize
             THEN [c EXCEPT !.holdings[ReqAddr] = ReqField] ELSE c
        [] ReqFunc = 15 ->
             IF ReqAddr + ReqField <= ContextSize /\ ReqField <= 8 * bytes
             THEN [c EXCEPT !.coils =
                     [a \in Addrs |->
                        IF a >= ReqAddr /\ a < ReqAddr + ReqField
                        THEN Bit(payload((a - ReqAddr) \div 8),
                                 (a - ReqAddr) % 8) = 1
                        ELSE c.coils[a]]]
             ELSE c
        [] ReqFunc = 16 ->
             IF ReqAddr + bytes \div 2 <= ContextSize /\ bytes % 2 = 0
             THEN [c EXCEPT !.holdings =
                     [a \in Addrs |->
                        IF a >= ReqAddr /\ a < ReqAddr + bytes \div 2
                        THEN 256 * payload(2 * (a - ReqAddr))
                               + payload(2 * (a - ReqAddr) + 1)
                        ELSE c.holdings[a]]]
             ELSE c

\* A single write for this unit, well-formed and in range.
SingleWriteServed ==
  /\ Returned /\ ReqAccepted /\ ~ReqBroadcast
  /\ (ReqFunc = 5 /\ ReqField \in {65280, 0}) \/ ReqFunc = 6
  /\ ReqAddr < ContextSize
  /\ ReqCrcOk

\* C8: a non-broadcast single write (function 5 with 0xFF00 or 0x0000,
\* function 6 with any value) to an in-range address sets that one cell and
\* no other, and is answered with the 6 request bytes unit, function,
\* address, value: sealed with a valid checksum under Rtu, after the 4
\* echoed bytes and a length field of 6 under TcpUdp.
C8_SingleWrite ==
  SingleWriteServed =>
    /\ result.kind = "Some" /\ result.err = 0
    /\ ctx = (IF ReqFunc = 5
              THEN [old EXCEPT !.coils[ReqAddr] = (ReqField = 65280)]
              ELSE [old EXCEPT !.holdings[ReqAddr] = ReqField])
    /\ ReplyBody = [k \in 1 .. 6 |-> frame[ReqStart + k - 1]]
    /\ TcpWrapped(6)
    /\ proto = "Rtu" =>
         /\ Len(result.bytes) = 8
         /\ calc_rtu_crc(AsSlice(result.bytes), 6)
              = result.bytes[7] + 256 * result.bytes[8]

\* Over Rtu a coil that was off has been switched on, and the request was
\* echoed.
C8_Witness ==
  /\ pc = "reply" /\ SingleWriteServed
  /\ proto = "Rtu" /\ ReqFunc = 5 /\ ReqField = 65280
  /\ ~old.coils[ReqAddr] /\ ctx.coils[ReqAddr]
  /\ Len(result.bytes) = 8

\* A write request the server acts on: function 5 with a valid value,
\* function 6, function 15 or 16 with at most 242 payload bytes.
WriteActedOn ==
  /\ Returned /\ ReqAccepted
  /\ \/ ReqFunc = 5 /\ ReqField \in {65280, 0}
     \/ ReqFunc = 6
     \/ ReqFunc \in {15, 16} /\ frame[ReqStart + 6] <= 242
  /\ ReqCrcOk

\* C9: a broadcast write that passes the checksum gate is performed on the
\* targeted bank exactly as the same write addressed to this unit is, and
\* gets no reply, also when the write fails.
C9_BroadcastWrite ==
  WriteActedOn =>
    /\ ctx = WriteEffect(old)
    /\ ReqBroadcast => result.kind = "None"

\* A broadcast register write changed the holdings and was not answered.
C9_Witness ==
  /\ pc = "reply" /\ WriteActedOn
  /\ ReqBroadcast /\ ReqFunc \in {6, 16}
  /\ ctx.holdings # old.holdings
  /\ result.kind = "None"

\* C10: a function-5 request that passes the checksum gate with a value
\* other than 0xFF00 and 0x0000 is answered with exception 0x03, or not at
\* all when it is a broadcast; no cell changes and the context is not
\* locked.
C10_BadCoilValue ==
  (Returned /\ ReqAccepted /\ ReqFunc = 5 /\ ReqField \notin {65280, 0}
     /\ ReqCrcOk) =>
    /\ IF ReqBroadcast THEN result.kind = "None" ELSE IsException(3)
    /\ ctx = old
    /\ locks = 0

\* A request whose bank access runs past the end of the bank.
ReqOutOfRange ==
  \/ ReqIsRead
       /\ ReqField <= (IF ReqFunc \in {1, 2} THEN 2000 ELSE 125)
       /\ ReqAddr + ReqField > ContextSize
  \/ ReqFunc = 5 /\ ReqField \in {65280, 0} /\ ReqAddr >= ContextSize
  \/ ReqFunc = 6 /\ ReqAddr >= ContextSize
  \/ ReqFunc = 15 /\ frame[ReqStart + 6] <= 242
       /\ ReqAddr + ReqField > ContextSize
  \/ ReqFunc = 16 /\ frame[ReqStart + 6] <= 242
       /\ ReqAddr + frame[ReqStart + 6] \div 2 > ContextSize

\* C11: a non-broadcast request that passes the checksum gate and whose
\* bank access runs past the end of the bank is answered with exception
\* 0x02; the call does not abort, no address wraps around and no bank
\* changes or grows.
C11_OutOfRange ==
  (Returned /\ ReqAccepted /\ ~ReqBroadcast /\ ReqCrcOk /\ ReqOutOfRange) =>
    (IsException(2) /\ ctx = old)

\* The payload-length byte of a multiple write.
ReqBytes == frame[ReqStart + 6]

\* Where an RTU buffer has room for a checksum after the body, the two
\* bytes there are the checksum of the body.
ReqCrcNotWrong ==
  (proto = "Rtu" /\ ReqBodyLen + 1 < FrameLen) => ReqCrcOk

\* C12: a function-15 or function-16 request with a payload-length byte of
\* 243 to 255, under either protocol, is answered with exception 0x03, or
\* not at all when it is a broadcast; no bank changes.
C12_LongPayload ==
  (Returned /\ ReqAccepted /\ ReqFunc \in {15, 16} /\ ReqBytes >= 243
     /\ ReqCrcNotWrong) =>
    /\ IF ReqBroadcast THEN result.kind = "None" ELSE IsException(3)
    /\ ctx = old

\* C13: process_frame never aborts the program, whatever the 256 bytes of
\* the frame and either protocol: it returns no reply, or a reply after
\* changing a bank, or an exception reply.
C13_NeverAborts ==
  Returned =>
    /\ pc = "reply"
    /\ result.kind \in { "None", "Some" }

\* ------------------------------------------------------------------------
\* The server loop over a context that holds the longest reads
\* ------------------------------------------------------------------------

\* A context whose banks hold as many cells as the longest read asks for.
LongAddrs == 0 .. MaxBitCount - 1

LongContext ==
  [coils |-> [a \in LongAddrs |-> a % 3 = 0],
   discretes |-> [a \in LongAddrs |-> a % 5 = 1],
   holdings |-> [a \in LongAddrs |-> (257 * a + 11) % 65536],
   inputs |-> [a \in LongAddrs |-> 65535 - 31 * a]]

\* (address, count) of the long reads, with short and refused ones.
LongReadRanges ==
  { << 0, MaxBitCount >>, << 0, MaxBitCount - 7 >>, << 1, MaxBitCount >>,
    << 0, MaxBitCount + 1 >>, << 0, MaxWordCount >>,
    << MaxBitCount - MaxWordCount, MaxWordCount >>,
    << 3, MaxWordCount - 1 >>, << 0, MaxWordCount + 1 >>, << 2, 3 >>,
    << 0, 0 >> }

LongSpecBodies ==
  { RequestHead(u, f, r[1], r[2]) :
      u \in {0, LocalUnit}, f \in 1 .. 4, r \in LongReadRanges }
    \cup { RequestHead(LocalUnit, 5, 3, 65280),
           RequestHead(LocalUnit, 5, MaxBitCount, 65280),
           RequestHead(LocalUnit, 5, 3, 255),
           RequestHead(LocalUnit, 6, MaxBitCount - 1, 4660),
           RequestHead(LocalUnit, 7, 3, 1),
           RequestHead(LocalUnit, 16, 4, 2) \o << 4, 18, 52, 171, 205 >>,
           RequestHead(LocalUnit, 15, MaxBitCount - 2, 3) \o << 1, 7 >> }

LongFrames(p) ==
  IF p = "Rtu"
  THEN { RtuFrame(b, g) : b \in LongSpecBodies, g \in BOOLEAN }
  ELSE { TcpFrame(0, Len(b), b) : b \in LongSpecBodies }

LongInit ==
  /\ ctx = LongContext
  /\ unit_id = LocalUnit
  /\ proto \in { "Rtu", "TcpUdp" }
  /\ pc = "recv"
  /\ frame = ZeroFrame
  /\ old = ctx
  /\ result = None
  /\ locks = 0
  /\ written = NoWrite
  /\ NoThreads

\* The transport fills the buffer with one of the long requests.
LongReceive ==
  /\ pc = "recv"
  /\ \E f \in LongFrames(proto) : frame' = f
  /\ pc' = "process"
  /\ old' = ctx
  /\ result' = None
  /\ locks' = 0
  /\ UNCHANGED << ctx, unit_id, proto, written, threads >>

LongNext == LongReceive \/ ProcessFrame \/ SendReply \/ DropFrame

LongSpec == LongInit /\ [][LongNext]_vars

\* C14: every reply to an RTU request, success or exception, up to the
\* longest read replies (2000 coils, 125 registers), ends with the
\* little-endian checksum of all bytes before it: put into a frame buffer,
\* the reply passes the checksum validation of inbound frames.
C14_RtuReplySealed ==
  (pc = "reply" /\ proto = "Rtu" /\ result.kind = "Some") =>
    LET n == Len(result.bytes)
    IN  /\ n >= 2 /\ n <= FrameLen
        /\ calc_rtu_crc(AsSlice(result.bytes), n - 2)
             = result.bytes[n - 1] + 256 * result.bytes[n]
        /\ check_frame_crc(MkFrame(result.bytes), "Rtu", n - 2) = "pass"

\* 2000 coils were read over Rtu: 3 + 250 + 2 reply bytes.
C14_Witness ==
  /\ pc = "reply" /\ proto = "Rtu"
  /\ ReqFunc = 1 /\ ReqField = 2000
  /\ result.kind = "Some" /\ result.err = 0
  /\ Len(result.bytes) = 255
  /\ result.bytes[3] = 250

\* C15: every reply to a non-broadcast TcpUdp request, success or
\* exception, begins with the first 4 bytes of the request (transaction id
\* and protocol id), followed by a 2-byte big-endian length field that
\* counts the reply bytes after it.
C15_TcpReplyHeader ==
  (pc = "reply" /\ proto = "TcpUdp" /\ ~ReqBroadcast
     /\ result.kind = "Some") =>
    /\ Len(result.bytes) >= 6
    /\ SubSeq(result.bytes, 1, 4)
         = << frame[0], frame[1], frame[2], frame[3] >>
    /\ 256 * result.bytes[5] + result.bytes[6] = Len(result.bytes) - 6

\* Three holding registers were read over TcpUdp: 9 bytes after the
\* length field.
C15_Witness ==
  /\ pc = "reply" /\ proto = "TcpUdp" /\ ~ReqBroadcast
  /\ ReqFunc = 3 /\ ReqField = 3
  /\ result.kind = "Some" /\ result.err = 0
  /\ frame[0] # 0 /\ frame[1] # 0
  /\ Len(result.bytes) = 15

\* One step of the server leaves the banks alone that the function code of
\* the frame in the buffer does not write.
BanksKept ==
  /\ ctx'.discretes = ctx.discretes
  /\ ctx'.inputs = ctx.inputs
  /\ ReqFunc \notin {5, 15} => ctx'.coils = ctx.coils
  /\ ReqFunc \notin {6, 16} => ctx'.holdings = ctx.holdings

\* C17: over any sequence of process_frame calls the discretes and the
\* inputs never change; functions 5 and 15 change at most the coils,
\* functions 6 and 16 at most the holdings, functions 1-4 and unknown
\* functions change nothing.
C17_BanksKept == [][BanksKept]_vars

\* After a coil write and a register write have both taken effect, the
\* read-only banks are what they were at the start.
C17_Witness ==
  /\ pc = "reply" /\ ReqFunc \in {15, 16}
  /\ ctx # old
  /\ \E c \in InitContexts :
       /\ ctx.coils # c.coils /\ ctx.holdings # c.holdings
       /\ ctx.discretes = c.discretes /\ ctx.inputs = c.inputs

\* C18: after a non-broadcast function-16 request that wrote n words at an
\* in-range address was answered with the echo of its 6 header bytes, a
\* function-3 read of n registers at that address, with no write to the
\* range in between, returns the written payload byte for byte, the first
\* word at the lowest address; likewise a function-6 write of v followed by
\* a function-3 read of one register returns v.
C18_RoundTrip ==
  /\ (pc = "reply" /\ ReqAccepted /\ ~ReqBroadcast /\ ReqFunc = 3
        /\ ReqCrcOk /\ written # NoWrite
        /\ ReqAddr = written.reg /\ 2 * ReqField = Len(written.data)) =>
       /\ result.kind = "Some" /\ result.err = 0
       /\ ReplyBody = << ReqUnit, 3, 2 * ReqField >> \o written.data
  /\ (pc = "reply" /\ ReqFunc \in {6, 16} /\ result.kind = "Some"
        /\ result.err = 0) =>
       /\ written.reg = ReqAddr
       /\ ReplyBody = [k \in 1 .. 6 |-> frame[ReqStart + k - 1]]

\* Two registers were written by function 16 in a run that also wrote
\* coils, and the read of the two registers came back with the four
\* payload bytes.
C18_Witness ==
  /\ pc = "reply" /\ ~ReqBroadcast /\ ReqFunc = 3
  /\ written # NoWrite /\ ReqAddr = written.reg
  /\ Len(written.data) = 4 /\ ReqField = 2
  /\ written.data[1] # written.data[3]
  /\ old.coils \notin { c.coils : c \in InitContexts }
  /\ result.kind = "Some"
  /\ SubSeq(ReplyBody, 4, 7) = written.data

\* ------------------------------------------------------------------------
\* The example application: connection threads and the application loop
\* on the one context lock
\* ------------------------------------------------------------------------

\* The variables of the single server loop, unused here.
loop == << unit_id, proto, pc, frame, old, result, locks, written >>

ConcInit ==
  /\ ctx = AppContext
  /\ unit_id = LocalUnit
  /\ proto = "TcpUdp"
  /\ pc = "recv"
  /\ frame = ZeroFrame
  /\ old = FreshContext
  /\ result = None
  /\ locks = 0
  /\ written = NoWrite
  /\ NoThreads

\* A connection hands a frame to process_frame.  Header, unit id, count and
\* value tests come before the lock: a call that fails one of them goes
\* straight to its reply.
W_Start(t) ==
  /\ call[t].pc = "idle"
  /\ \E f \in ConcFrames :
       call' = [call EXCEPT ![t] =
                  [IdleCall EXCEPT
                     !.frame = f,
                     !.pc = IF TakesLock(unit_id, f, proto)
                            THEN "lock" ELSE "finish"]]
  /\ UNCHANGED << ctx, lock, app, loop >>

\* CONTEXT.lock() that does not wait for the holder.
W_Lock_NoWait(t) ==
  /\ call[t].pc = "lock"
  /\ lock' = t
  /\ call' = [call EXCEPT ![t].pc = "access", ![t].acq = @ + 1]
  /\ UNCHANGED << ctx, app, loop >>

\* CONTEXT.lock().unwrap(): the thread waits until the lock is free.
W_Lock(t) ==
  /\ call[t].pc = "lock"
  /\ lock = Free
  /\ lock' = t
  /\ call' = [call EXCEPT ![t].pc = "access", ![t].acq = @ + 1]
  /\ UNCHANGED << ctx, app, loop >>

\* The accessor goes through the bank one cell per step: a read fetches
\* the cell, a write stores it.  An access past the end of the bank
\* touches no cell.  A write of the command register is a command the
\* application has not seen yet.
W_Access(t) ==
  /\ call[t].pc = "access"
  /\ LET f == call[t].frame
         func == Func(f, proto)
         cell == Reg(f, proto) + call[t].i
         b == AccessBank(func)
         a == BankAccess(f, proto, ctx)
     IN  IF ~a.ok \/ call[t].i >= a.n
         THEN /\ call' = [call EXCEPT ![t].pc = "unlock"]
              /\ UNCHANGED << ctx, app >>
         ELSE IF func <= 4
         THEN /\ call' = [call EXCEPT ![t].buf = Append(@, ctx[b][cell]),
                                      ![t].i = @ + 1]
              /\ UNCHANGED << ctx, app >>
         ELSE /\ ctx' = [ctx EXCEPT ![b][cell] = a.bank[cell]]
              /\ call' = [call EXCEPT ![t].i = @ + 1]
              /\ app' = IF b = "holdings" /\ cell = CommandReg
                        THEN [app EXCEPT !.pending = TRUE] ELSE app
  /\ UNCHANGED << lock, loop >>

\* drop(ctx), or the end of the statement that locked.
W_Unlock(t) ==
  /\ call[t].pc = "unlock"
  /\ lock' = Free
  /\ call' = [call EXCEPT ![t].pc = "finish"]
  /\ UNCHANGED << ctx, app, loop >>

\* The reply is built from what the call has seen, without the lock.  A
\* panic ends the thread.
W_Finish(t) ==
  /\ call[t].pc = "finish"
  /\ \E r \in { process_frame(unit_id, call[t].frame, proto,
                               View(call[t].frame, proto, ctx, call[t].buf),
                               overflow_checks).result :
                  overflow_checks \in BOOLEAN } :
       call' = [call EXCEPT
                  ![t].result = r,
                  ![t].pc = IF r.kind = "Abort" THEN "aborted" ELSE "done"]
  /\ UNCHANGED << ctx, lock, app, loop >>

\* process_frame has returned: the connection sends the reply, if any, and
\* waits for the next frame.
W_Return(t) ==
  /\ call[t].pc = "done"
  /\ call' = [call EXCEPT ![t] = IdleCall]
  /\ UNCHANGED << ctx, lock, app, loop >>

\* The first CONTEXT.lock() of the loop body, not waiting for the holder.
A_Lock1_NoWait ==
  /\ app.pc = "lock1"
  /\ lock' = "app"
  /\ app' = [app EXCEPT !.pc = "read"]
  /\ UNCHANGED << ctx, call, loop >>

\* let mut ctx = context::CONTEXT.lock().unwrap();
A_Lock1 ==
  /\ app.pc = "lock1"
  /\ lock = Free
  /\ lock' = "app"
  /\ app' = [app EXCEPT !.pc = "read"]
  /\ UNCHANGED << ctx, call, loop >>

\* The parameters and the command register are read (all of them below
\* the command register, so no unwrap fails).  fresh: a connection has
\* written the command register since the loop last read it.
A_ReadCmd ==
  /\ app.pc = "read"
  /\ app' = [app EXCEPT !.pc = "reset", !.cmd = ctx.holdings[CommandReg],
                        !.fresh = app.pending, !.pending = FALSE]
  /\ UNCHANGED << ctx, lock, call, loop >>

\* context::set(1500, 0, &mut ctx.holdings)
A_Reset ==
  /\ app.pc = "reset"
  /\ ctx' = [ctx EXCEPT !.holdings[CommandReg] = 0]
  /\ app' = [app EXCEPT !.pc = "act"]
  /\ UNCHANGED << lock, call, loop >>

\* Command 1 dumps the context, any other command is only reported.
A_Act ==
  /\ app.pc = "act"
  /\ app' = [app EXCEPT !.pc = "unlock1",
                        !.snapshot = IF app.cmd = 1 THEN ctx ELSE NoSnapshot]
  /\ UNCHANGED << ctx, lock, call, loop >>

\* drop(ctx)
A_Unlock1 ==
  /\ app.pc = "unlock1"
  /\ lock' = Free
  /\ app' = [app EXCEPT !.pc = "lock2", !.cmd = 0, !.fresh = FALSE,
                        !.snapshot = NoSnapshot]
  /\ UNCHANGED << ctx, call, loop >>

\* let mut ctx = context::CONTEXT.lock().unwrap(); for the results
A_Lock2 ==
  /\ app.pc = "lock2"
  /\ lock = Free
  /\ lock' = "app"
  /\ app' = [app EXCEPT !.pc = "coil"]
  /\ UNCHANGED << ctx, call, loop >>

\* context::set(0, true, &mut ctx.coils)
A_SetCoil ==
  /\ app.pc = "coil"
  /\ ctx' = [ctx EXCEPT !.coils[0] = TRUE]
  /\ app' = [app EXCEPT !.pc = "bulk", !.i = 0]
  /\ UNCHANGED << lock, call, loop >>

\* context::set_bulk(10, &[10, 20], &mut ctx.holdings), one cell per step
A_SetBulk ==
  /\ app.pc = "bulk"
  /\ ctx' = [ctx EXCEPT !.holdings[BulkReg + app.i] = 10 * (app.i + 1)]
  /\ app' = IF app.i = 0 THEN [app EXCEPT !.i = 1]
                         ELSE [app EXCEPT !.pc = "float", !.i = 0]
  /\ UNCHANGED << lock, call, loop >>

\* context::set_f32(20, 935.77, &mut ctx.inputs): two words
A_SetFloat ==
  /\ app.pc = "float"
  /\ ctx' = [ctx EXCEPT !.inputs[FloatReg] = 17513,
                        !.inputs[FloatReg + 1] = 61768]
  /\ app' = [app EXCEPT !.pc = "unlock2"]
  /\ UNCHANGED << lock, call, loop >>

\* The guard goes out of scope at the end of the loop body.
A_Unlock2 ==
  /\ app.pc = "unlock2"
  /\ lock' = Free
  /\ app' = [app EXCEPT !.pc = "lock1"]
  /\ UNCHANGED << ctx, call, loop >>

ConcNext ==
  \/ \E t \in Workers :
       W_Start(t) \/ W_Lock(t) \/ W_Access(t) \/ W_Unlock(t)
         \/ W_Finish(t) \/ W_Return(t)
  \/ A_Lock1 \/ A_ReadCmd \/ A_Reset \/ A_Act \/ A_Unlock1
  \/ A_Lock2 \/ A_SetCoil \/ A_SetBulk \/ A_SetFloat \/ A_Unlock2

ConcSpec == ConcInit /\ [][ConcNext]_vars

\* The threads are scheduled fairly: a thread that can take a step of its
\* call or of its loop body takes it, and a thread that waits for the lock
\* gets it when the lock is free again and again.  A connection is not
\* obliged to send another frame.
ConcFairSpec ==
  /\ ConcInit /\ [][ConcNext]_vars
  /\ \A t \in Workers :
       /\ WF_vars(W_Access(t) \/ W_Unlock(t) \/ W_Finish(t) \/ W_Return(t))
       /\ SF_vars(W_Lock(t))
  /\ WF_vars(A_ReadCmd \/ A_Reset \/ A_Act \/ A_Unlock1 \/ A_SetCoil
               \/ A_SetBulk \/ A_SetFloat \/ A_Unlock2)
  /\ SF_vars(A_Lock1 \/ A_Lock2)

\* The words a request of function 16 carries.
PayloadWords(f) ==
  [k \in 1 .. f[ReqStart + 6] \div 2 |->
     256 * f[ReqStart + 5 + 2 * k] + f[ReqStart + 6 + 2 * k]]

\* What the two result registers can hold between two holds of the lock:
\* zeros at the start, the results of the application, or the payload of
\* a write request.
WholeValues ==
  { << 0, 0 >>, << 10, 20 >> }
    \cup { PayloadWords(f) :
             f \in { g \in ConcFrames :
                       g[7] = 16 /\ 256 * g[8] + g[9] = BulkReg } }

\* The thread holds the lock while it is in the bank.
HoldsLockInBank(t) == call[t].pc \in { "access", "unlock" } => lock = t

\* C16: with several threads calling process_frame on the shared context,
\* every bank read and write of a call happens while the call holds the
\* context lock, and a call takes the lock at most once; so a read never
\* sees a multiple write half applied: what it returns is what the bank
\* held at one moment, all old or all new values of the written range.
C16_AtomicAccess ==
  \A t \in Workers :
    LET f == call[t].frame
        reg == 256 * f[8] + f[9]
    IN  /\ HoldsLockInBank(t)
        /\ call[t].acq <= 1
        /\ (call[t].pc = "unlock" /\ f[7] = 3) =>
             \A k \in 1 .. Len(call[t].buf) :
               call[t].buf[k] = ctx.holdings[reg + k - 1]
        /\ (call[t].pc = "done" /\ f[7] = 3 /\ reg = BulkReg
              /\ call[t].result.err = 0) =>
             /\ call[t].buf \in WholeValues
             /\ call[t].result.bytes
                  = << f[0], f[1], f[2], f[3], 0, 7, f[6], 3, 4,
                       call[t].buf[1] \div 256, call[t].buf[1] % 256,
                       call[t].buf[2] \div 256, call[t].buf[2] % 256 >>

\* A read returned the two words of a write request while the other
\* connection was waiting for the lock with a write of its own.
C16_Witness ==
  \E t \in Workers, u \in Workers :
    /\ t # u
    /\ call[t].pc = "done" /\ call[t].frame[7] = 3
    /\ call[t].buf = << 4660, 43981 >>
    /\ call[t].acq = 1
    /\ call[u].frame[7] = 16 /\ call[u].pc = "lock"

\* The two result registers as the dump has them.
DumpedResults ==
  << app.snapshot.holdings[BulkReg], app.snapshot.holdings[BulkReg + 1] >>

\* C19: in the application loop the command register is read, reset to 0
\* and, for command 1, the context dumped within one hold of the context
\* lock: no write of a connection takes effect between the read and the
\* reset, a command the loop acts on was written by a connection since the
\* loop last read the register, and the dump holds every write request
\* entirely or not at all.
C19_CommandOnce ==
  /\ app.pc \in { "read", "reset", "act", "unlock1" } => lock = "app"
  /\ app.pc = "reset" => ctx.holdings[CommandReg] = app.cmd
  /\ app.pc \in { "act", "unlock1" } => ctx.holdings[CommandReg] = 0
  /\ (app.pc \in { "reset", "act", "unlock1" } /\ app.cmd # 0) => app.fresh
  /\ (app.pc = "unlock1" /\ app.cmd = 1) =>
       /\ app.snapshot = ctx
       /\ DumpedResults \in WholeValues
       /\ \A t \in Workers : call[t].pc \notin { "access", "unlock" }

\* The loop has read command 1, reset the register and dumped a context
\* with the two words of a write request in it, while a connection waits
\* for the lock with the next command.
C19_Witness ==
  /\ app.pc = "unlock1" /\ app.cmd = 1
  /\ ctx.holdings[CommandReg] = 0
  /\ DumpedResults = << 4660, 43981 >>
  /\ \E t \in Workers :
       /\ call[t].pc = "lock"
       /\ call[t].frame[7] = 6

\* No thread asks for the lock while it holds it, the lock is held only
\* inside a bank access or inside the loop body, and a call that has left
\* the bank has given the lock back.
LockDiscipline ==
  /\ \A t \in Workers :
       lock = t <=> call[t].pc \in { "access", "unlock" }
  /\ lock = "app" <=> app.pc \notin { "lock1", "lock2" }
  /\ \A t \in Workers : call[t].acq <= 1

\* C20: with the connection threads and the application loop on the one
\* context lock, no thread asks for the lock while it holds it and every
\* path of process_frame gives the lock back before it returns; so, with
\* the lock granted fairly, every call of process_frame that starts
\* returns.
C20_EveryCallReturns ==
  /\ []LockDiscipline
  /\ \A t \in Workers : (call[t].pc # "idle") ~> (call[t].pc = "done")

====
